---- MODULE Spec2Model ----
(***************************************************************************)
(* A model of peter, a file encryption tool on top of the Noise X          *)
(* handshake (src/src/core.rs, src/src/ioutils.rs, src/src/main.rs).       *)
(*                                                                         *)
(* Byte strings are sequences of slices: a slice [r, lo, hi] stands for    *)
(* the bytes lo .. hi-1 of the object r (the plaintext file, a literal     *)
(* byte vector, a handshake message or an AEAD record).  Two slices join   *)
(* into one only where they are adjacent parts of the same object, so the  *)
(* model tells a whole record from its parts and from two records.         *)
(*                                                                         *)
(* Environment: a reader or writer opened on a file name transfers as many *)
(* bytes as asked for (regular files); one opened on "-" (stdin, stdout)   *)
(* may transfer fewer, as std::io::Read::read and Write::write allow.      *)
(***************************************************************************)
EXTENDS Integers, Sequences, FiniteSets, TLC

(* ------------------------------------------------------------------ *)
(* Format constants, src/src/core.rs:15-21                             *)
(* ------------------------------------------------------------------ *)
HEADER_LENGTH == 96

OVERHEAD_PER_MESSAGE == 16

SIZEMARKER_LENGTH == 8

SIZEMARKER_ENC_LENGTH == SIZEMARKER_LENGTH + OVERHEAD_PER_MESSAGE

MAX_MESSAGE_LENGTH == 65535

MAX_PAYLOAD_PART_LENGTH == MAX_MESSAGE_LENGTH - OVERHEAD_PER_MESSAGE

PROLOGUE == "PETER V1"

(* ------------------------------------------------------------------ *)
(* Bounds of the model                                                 *)
(* ------------------------------------------------------------------ *)
\* The plaintext lengths range over 0 .. MaxChunks full record bodies, each
\* one byte short, exact, and one byte over.
MaxChunks == 2

\* How many times another process may append to the input file while encrypt
\* runs.
MaxAppends == 1

Min(a, b) == IF a <= b THEN a ELSE b

PlainLengths ==
    { n \in { k * MAX_PAYLOAD_PART_LENGTH + d : k \in 0..MaxChunks, d \in {-1, 0, 1} } :
        n >= 0 }

\* The private keys in play.
PrivKeys == {"alice", "bob"}

(* ------------------------------------------------------------------ *)
(* Byte strings                                                        *)
(* ------------------------------------------------------------------ *)
Slice(r, lo, hi) == [r |-> r, lo |-> lo, hi |-> hi]

\* Concatenation; adjacent parts of one object join.
Cat(a, b) ==
    IF a = <<>> THEN b
    ELSE IF b = <<>> THEN a
    ELSE LET x == a[Len(a)]
             y == b[1]
         IN  IF x.r = y.r /\ x.hi = y.lo
             THEN SubSeq(a, 1, Len(a) - 1) \o <<Slice(x.r, x.lo, y.hi)>> \o Tail(b)
             ELSE a \o b

RECURSIVE BLen(_)
BLen(bs) == IF bs = <<>> THEN 0 ELSE (bs[1].hi - bs[1].lo) + BLen(Tail(bs))

\* The first n bytes of bs (all of bs when it is shorter).
RECURSIVE BTake(_, _)
BTake(bs, n) ==
    IF n <= 0 \/ bs = <<>> THEN <<>>
    ELSE LET h == bs[1]
             w == h.hi - h.lo
         IN  IF n < w THEN <<Slice(h.r, h.lo, h.lo + n)>>
             ELSE <<h>> \o BTake(Tail(bs), n - w)

\* bs without its first n bytes.
RECURSIVE BDrop(_, _)
BDrop(bs, n) ==
    IF bs = <<>> THEN <<>>
    ELSE IF n <= 0 THEN bs
    ELSE LET h == bs[1]
             w == h.hi - h.lo
         IN  IF n < w THEN <<Slice(h.r, h.lo + n, h.hi)>> \o Tail(bs)
             ELSE BDrop(Tail(bs), n - w)

RECURSIVE CatAll(_)
CatAll(ss) == IF ss = <<>> THEN <<>> ELSE Cat(ss[1], CatAll(Tail(ss)))

\* A literal byte vector.
Lit(v) == IF v = <<>> THEN <<>> ELSE <<Slice([t |-> "lit", v |-> v], 0, Len(v))>>

\* The content of the plaintext file of length n.
PlainBytes(n) == IF n = 0 THEN <<>> ELSE <<Slice([t |-> "plain"], 0, n)>>

(* ------------------------------------------------------------------ *)
(* byteorder: the 8-byte big-endian length marker                      *)
(* ------------------------------------------------------------------ *)
\* write_u64::<BigEndian>.  The lengths of the model are below 2^31, so the
\* four high bytes are zero.
U64Bytes(v) ==
    [i \in 1..SIZEMARKER_LENGTH |->
        IF i <= 4 THEN 0 ELSE (v \div (256 ^ (SIZEMARKER_LENGTH - i))) % 256]

WriteU64BE(v) == Lit(U64Bytes(v))

\* The marker decoded with the bytes in the opposite order.
ReadU64LE(bs) ==
    LET v == bs[1].r.v
    IN  v[4] * (256 ^ 3) + v[3] * (256 ^ 2) + v[2] * 256 + v[1]

\* read_u64::<BigEndian> of an 8-byte buffer holding one literal vector.
ReadU64BE(bs) ==
    LET v == bs[1].r.v
    IN  v[5] * (256 ^ 3) + v[6] * (256 ^ 2) + v[7] * 256 + v[8]

(* ------------------------------------------------------------------ *)
(* Noise_X_25519_ChaChaPoly_BLAKE2s (the snow crate), symbolically     *)
(* ------------------------------------------------------------------ *)
\* extract_pubkey: the public key of a private key.
Pub(k) == [pub |-> k]

PubKeys == { Pub(k) : k \in PrivKeys }

\* The X handshake message: e (32), encrypted s (32 + 16), payload tag (16).
HandshakeLen == 32 + (32 + OVERHEAD_PER_MESSAGE) + OVERHEAD_PER_MESSAGE

build_initiator(privkey, pubkey, prologue) ==
    [s |-> privkey, rs |-> pubkey, prologue |-> prologue]

build_responder(privkey, prologue) ==
    [s |-> privkey, prologue |-> prologue]

\* The initiator's one handshake message, with an empty payload.  It binds the
\* sender's static key, the recipient's public key and the prologue.
HandshakeMessage(hs) ==
    [t |-> "hs", s |-> Pub(hs.s), rs |-> hs.rs, prologue |-> hs.prologue]

HandshakeBytes(m) == <<Slice(m, 0, HandshakeLen)>>

\* A responder that does not bind the message to its own key.
HandshakeVerifiesForAnyone(hs, bs) ==
    /\ Len(bs) = 1
    /\ bs[1].r.t = "hs"
    /\ bs[1].lo = 0
    /\ bs[1].hi = HandshakeLen
    /\ bs[1].r.prologue = hs.prologue

\* The responder accepts exactly the whole handshake message made for its own
\* key under its own prologue.
HandshakeVerifies(hs, bs) ==
    /\ Len(bs) = 1
    /\ bs[1].r.t = "hs"
    /\ bs[1].lo = 0
    /\ bs[1].hi = HandshakeLen
    /\ bs[1].r.rs = Pub(hs.s)
    /\ bs[1].r.prologue = hs.prologue

\* Transport state after the handshake: the keys derive from the handshake
\* message, the nonce counter starts at 0.
into_transport_mode(m) == [key |-> m, n |-> 0, remote_static |-> m.s]

\* Transport write_message refuses a payload that does not fit one message.
Sealable(payload) == BLen(payload) + OVERHEAD_PER_MESSAGE <= MAX_MESSAGE_LENGTH

\* Transport write_message: one AEAD record under the next nonce.
Record(tr, payload) == [t |-> "msg", key |-> tr.key, n |-> tr.n, body |-> payload]

RecordLen(rec) == BLen(rec.body) + OVERHEAD_PER_MESSAGE

RecordBytes(rec) == <<Slice(rec, 0, RecordLen(rec))>>

\* A receiver that does not count nonces.
RecordVerifiesAnyNonce(tr, bs) ==
    /\ Len(bs) = 1
    /\ bs[1].r.t = "msg"
    /\ bs[1].lo = 0
    /\ bs[1].hi = RecordLen(bs[1].r)
    /\ bs[1].r.key = tr.key

\* Transport read_message verifies exactly one whole record, sealed under this
\* session's key with the nonce the receiver expects next.
RecordVerifies(tr, bs) ==
    /\ Len(bs) = 1
    /\ bs[1].r.t = "msg"
    /\ bs[1].lo = 0
    /\ bs[1].hi = RecordLen(bs[1].r)
    /\ bs[1].r.key = tr.key
    /\ bs[1].r.n = tr.n

\* A nonce counter that does not count.
SameNonce(tr) == tr

NextNonce(tr) == [tr EXCEPT !.n = @ + 1]

(* ------------------------------------------------------------------ *)
(* ioutils.rs: names and streams                                       *)
(* ------------------------------------------------------------------ *)
is_stdinout(fname) == fname = "-"

is_none(fname) == fname = "."

is_world(fname) == fname = "+"

FileNames ==
    {"plain.bin", "ct.bin", "out.bin", "missing.bin",
     "alice.key", "bob.key", "alice.pub", "bob.pub", "found.pub"}

NoFile == [exists |-> FALSE, data |-> <<>>]

File(bs) == [exists |-> TRUE, data |-> bs]

\* How many bytes one write call may accept of len offered: all of them on a
\* file, possibly one fewer on stdout.
WriteAccepts(fname, len) ==
    IF is_stdinout(fname) THEN { n \in {len, len - 1} : n >= 1 \/ n = len } ELSE {len}

\* How many bytes one read call may return when avail bytes are left, the
\* buffer holds cap bytes and the next object in the stream ends after edge
\* bytes: a file fills the buffer; stdin may return less.
ReadSizes(fname, avail, cap, edge) ==
    IF avail = 0 THEN {0}
    ELSE IF is_stdinout(fname)
         THEN { n \in {Min(avail, cap), edge, 1} : n >= 1 /\ n <= Min(avail, cap) }
         ELSE {Min(avail, cap)}

VARIABLES
    pc,         \* the position of the run
    fs,         \* the files: name -> [exists, data]
    stdin,      \* the bytes the running command can still read from stdin
    stdout,     \* the bytes the running command has written to stdout
    e,          \* the frame of encrypt: arguments and locals
    eRes,       \* how encrypt ended
    wire,       \* what happened to the ciphertext on its way to decrypt
    d,          \* the frame of decrypt: arguments and locals
    dRes,       \* how decrypt ended
    cli,        \* the command line of the running command
    m,          \* the frame of main
    exit,       \* how the command ended
    kf          \* the frame of a call of write_key and read_key

vars == <<pc, fs, stdin, stdout, e, eRes, wire, d, dRes, cli, m, exit, kf>>

cliVars == <<cli, m, exit>>

encVars == <<e, eRes>>

decVars == <<wire, d, dRes>>

NoKey == [pub |-> "none"]

None == [some |-> FALSE, key |-> NoKey]

Some(k) == [some |-> TRUE, key |-> k]

Running == [status |-> "running", kind |-> "none", value |-> NoKey]

Ok == [status |-> "ok", kind |-> "none", value |-> NoKey]

OkValue(v) == [status |-> "ok", kind |-> "none", value |-> v]

Err(kind) == [status |-> "err", kind |-> kind, value |-> NoKey]

Panic(kind) == [status |-> "panic", kind |-> kind, value |-> NoKey]

\* open_writer: stdout, or the file created (truncated).
open_writer(files, fname) ==
    IF is_stdinout(fname) THEN files ELSE [files EXCEPT ![fname] = File(<<>>)]

\* The stream a writer appends to, after one write call that accepted n bytes.
WriteFile(files, fname, bs, n) ==
    IF is_stdinout(fname) THEN files
    ELSE [files EXCEPT ![fname] = File(Cat(@.data, BTake(bs, n)))]

WriteStdout(out, fname, bs, n) ==
    IF is_stdinout(fname) THEN Cat(out, BTake(bs, n)) ELSE out

\* encrypt: if s_payload == 0 { break; }
EndOfInput(s_payload) == s_payload = 0

\* The length check of encrypt left out.
InputLengthUnchecked(payload_length, payload_length2) == TRUE

\* encrypt: assert!(payload_length == payload_length2)
InputLengthAgrees(payload_length, payload_length2) == payload_length = payload_length2

(* ------------------------------------------------------------------ *)
(* core.rs: encrypt                                                    *)
(* ------------------------------------------------------------------ *)
EncArgs ==
    [privkey : PrivKeys, pubkey : PubKeys,
     fin : {"plain.bin", "missing.bin", "-"}, fout : {"ct.bin", "-"}]

EncFrame(args) ==
    [privkey |-> args.privkey, pubkey |-> args.pubkey, fin |-> args.fin,
     fout |-> args.fout, payload_length |-> 0, payload_length2 |-> 0, in_pos |-> 0,
     buffer_in |-> <<>>, hs |-> "none", noise |-> "none", sent |-> <<>>, log |-> <<>>,
     appended |-> 0, cut |-> FALSE]

\* encrypt opening its output before it looks at the name of its input.
EncStartWriterFirst ==
    /\ pc = "enc_call"
    /\ IF is_stdinout(e.fin)
       THEN /\ fs' = open_writer(fs, e.fout)
            /\ eRes' = Panic("not_implemented")
            /\ pc' = "enc_ret"
            /\ UNCHANGED e
       ELSE IF ~fs[e.fin].exists
       THEN /\ eRes' = Err("io")
            /\ pc' = "enc_ret"
            /\ UNCHANGED <<fs, e>>
       ELSE /\ fs' = open_writer(fs, e.fout)
            /\ e' = [e EXCEPT !.payload_length = BLen(fs[e.fin].data),
                              !.in_pos = 0,
                              !.hs = build_initiator(e.privkey, e.pubkey, PROLOGUE)]
            /\ pc' = "enc_hs"
            /\ UNCHANGED eRes
    /\ UNCHANGED <<stdin, stdout, decVars, cliVars, kf>>

\* Lines 44-71: refuse stdin, open the files, measure the input, build the
\* initiator.
EncStart ==
    /\ pc = "enc_call"
    /\ IF is_stdinout(e.fin)
       THEN /\ eRes' = Panic("not_implemented")
            /\ pc' = "enc_ret"
            /\ UNCHANGED <<fs, e>>
       ELSE IF ~fs[e.fin].exists
       THEN /\ eRes' = Err("io")
            /\ pc' = "enc_ret"
            /\ UNCHANGED <<fs, e>>
       ELSE /\ fs' = open_writer(fs, e.fout)
            /\ e' = [e EXCEPT !.payload_length = BLen(fs[e.fin].data),
                              !.in_pos = 0,
                              !.hs = build_initiator(e.privkey, e.pubkey, PROLOGUE)]
            /\ pc' = "enc_hs"
            /\ UNCHANGED eRes
    /\ UNCHANGED <<stdin, stdout, decVars, cliVars, kf>>

\* The input file is not encrypt's alone: while encrypt runs, after it has
\* measured the file, another process may append a byte to it ...
InputGrows ==
    /\ pc \in {"enc_hs", "enc_marker", "enc_read", "enc_write"}
    /\ ~e.cut
    /\ e.appended < MaxAppends
    /\ fs' = [fs EXCEPT ![e.fin] = File(@.data \o <<Slice([t |-> "appended"], 0, 1)>>)]
    /\ e' = [e EXCEPT !.appended = @ + 1]
    /\ UNCHANGED <<pc, stdin, stdout, eRes, decVars, cliVars, kf>>

\* ... or cut off its last byte, which encrypt has not read yet.
InputShrinks ==
    /\ pc \in {"enc_hs", "enc_marker", "enc_read", "enc_write"}
    /\ ~e.cut
    /\ e.appended = 0
    /\ e.in_pos < BLen(fs[e.fin].data)
    /\ fs' = [fs EXCEPT ![e.fin] = File(BTake(@.data, BLen(@.data) - 1))]
    /\ e' = [e EXCEPT !.cut = TRUE]
    /\ UNCHANGED <<pc, stdin, stdout, eRes, decVars, cliVars, kf>>

\* Lines 73-84: the handshake message, written with one write call; then
\* transport mode.
EncHandshake ==
    /\ pc = "enc_hs"
    /\ LET msg == HandshakeMessage(e.hs)
           out == HandshakeBytes(msg)
       IN  IF BLen(out) # HEADER_LENGTH
           THEN /\ eRes' = Panic("assert_header_length")
                /\ pc' = "enc_ret"
                /\ UNCHANGED <<fs, stdout, e>>
           ELSE \E n \in WriteAccepts(e.fout, BLen(out)) :
                /\ fs' = WriteFile(fs, e.fout, out, n)
                /\ stdout' = WriteStdout(stdout, e.fout, out, n)
                /\ e' = [e EXCEPT !.noise = into_transport_mode(msg),
                                  !.sent = Append(@, out),
                                  !.log = @ \o <<"write_message", "write",
                                                 "into_transport_mode">>]
                /\ pc' = "enc_marker"
                /\ UNCHANGED eRes
    /\ UNCHANGED <<stdin, decVars, cliVars, kf>>

\* Lines 85-100: the encrypted big-endian length marker.
EncMarker ==
    /\ pc = "enc_marker"
    /\ LET lenvec == WriteU64BE(e.payload_length)
           out == RecordBytes(Record(e.noise, lenvec))
       IN  IF BLen(lenvec) # SIZEMARKER_LENGTH \/ BLen(out) # SIZEMARKER_ENC_LENGTH
           THEN /\ eRes' = Panic("assert_sizemarker_length")
                /\ pc' = "enc_ret"
                /\ UNCHANGED <<fs, stdout, e>>
           ELSE \E n \in WriteAccepts(e.fout, BLen(out)) :
                /\ fs' = WriteFile(fs, e.fout, out, n)
                /\ stdout' = WriteStdout(stdout, e.fout, out, n)
                /\ e' = [e EXCEPT !.noise = NextNonce(@),
                                  !.payload_length2 = 0,
                                  !.sent = Append(@, out),
                                  !.log = @ \o <<"write_message", "write">>]
                /\ pc' = "enc_read"
                /\ UNCHANGED eRes
    /\ UNCHANGED <<stdin, decVars, cliVars, kf>>

\* Lines 102-107 and 116-118: read the next chunk of the input file; at end of
\* file leave the loop, check the length and return.
EncRead ==
    /\ pc = "enc_read"
    /\ LET rest == BDrop(fs[e.fin].data, e.in_pos)
       IN  \E s_payload \in ReadSizes(e.fin, BLen(rest), MAX_PAYLOAD_PART_LENGTH,
                                      BLen(rest)) :
           IF EndOfInput(s_payload)
           THEN /\ eRes' = IF InputLengthAgrees(e.payload_length, e.payload_length2)
                           THEN Ok ELSE Panic("assert_length")
                /\ e' = [e EXCEPT !.log = Append(@, "read")]
                /\ pc' = "enc_ret"
           ELSE /\ e' = [e EXCEPT !.buffer_in = BTake(rest, s_payload),
                                  !.in_pos = @ + s_payload,
                                  !.log = Append(@, "read")]
                /\ pc' = "enc_write"
                /\ UNCHANGED eRes
    /\ UNCHANGED <<fs, stdin, stdout, decVars, cliVars, kf>>

\* Lines 108-114: seal the chunk as one record and write it with one write call.
EncWrite ==
    /\ pc = "enc_write"
    /\ LET out == RecordBytes(Record(e.noise, e.buffer_in))
       IN  IF ~Sealable(e.buffer_in)
           THEN /\ eRes' = Err("encrypt")
                /\ pc' = "enc_ret"
                /\ UNCHANGED <<fs, stdout, e>>
           ELSE \E n \in WriteAccepts(e.fout, BLen(out)) :
                /\ fs' = WriteFile(fs, e.fout, out, n)
                /\ stdout' = WriteStdout(stdout, e.fout, out, n)
                /\ e' = [e EXCEPT !.noise = NextNonce(@),
                                  !.payload_length2 = @ + BLen(e.buffer_in),
                                  !.sent = Append(@, out),
                                  !.log = @ \o <<"write_message", "write">>]
                /\ pc' = "enc_read"
                /\ UNCHANGED eRes
    /\ UNCHANGED <<stdin, decVars, cliVars, kf>>

(* ------------------------------------------------------------------ *)
(* ioutils.rs: keys as text                                            *)
(* ------------------------------------------------------------------ *)
\* A text is a sequence of characters; a key is a sequence of bytes (0..255).
\* The characters of base64, by their value: "A" is 0, "/" is 63.
BASE64_ALPHABET ==
    <<"A", "B", "C", "D", "E", "F", "G", "H", "I", "J", "K",
      "L", "M", "N", "O", "P", "Q", "R", "S", "T", "U", "V",
      "W", "X", "Y", "Z", "a", "b", "c", "d", "e", "f", "g",
      "h", "i", "j", "k", "l", "m", "n", "o", "p", "q", "r",
      "s", "t", "u", "v", "w", "x", "y", "z", "0", "1", "2",
      "3", "4", "5", "6", "7", "8", "9", "+", "/">>

PAD == "="

Whitespace == {"\n", " "}

IsBase64Char(c) == \E i \in 1..Len(BASE64_ALPHABET) : BASE64_ALPHABET[i] = c

CharOf(sextet) == BASE64_ALPHABET[sextet + 1]

SextetOf(c) == (CHOOSE i \in 1..Len(BASE64_ALPHABET) : BASE64_ALPHABET[i] = c) - 1

\* base64::encode: three bytes give four characters; the last group is padded.
RECURSIVE encode(_)
encode(bs) ==
    IF bs = <<>> THEN <<>>
    ELSE IF Len(bs) = 1
    THEN <<CharOf(bs[1] \div 4), CharOf((bs[1] % 4) * 16), PAD, PAD>>
    ELSE IF Len(bs) = 2
    THEN <<CharOf(bs[1] \div 4), CharOf((bs[1] % 4) * 16 + bs[2] \div 16),
           CharOf((bs[2] % 16) * 4), PAD>>
    ELSE <<CharOf(bs[1] \div 4), CharOf((bs[1] % 4) * 16 + bs[2] \div 16),
           CharOf((bs[2] % 16) * 4 + bs[3] \div 64), CharOf(bs[3] % 64)>>
             \o encode(SubSeq(bs, 4, Len(bs)))

\* A text without the padding at its end.
Unpadded(cs) ==
    IF Len(cs) >= 2 /\ cs[Len(cs)] = PAD /\ cs[Len(cs) - 1] = PAD
    THEN SubSeq(cs, 1, Len(cs) - 2)
    ELSE IF Len(cs) >= 1 /\ cs[Len(cs)] = PAD
    THEN SubSeq(cs, 1, Len(cs) - 1)
    ELSE cs

RECURSIVE DecodeSextets(_)
DecodeSextets(ss) ==
    IF Len(ss) < 2 THEN <<>>
    ELSE IF Len(ss) = 2 THEN <<ss[1] * 4 + ss[2] \div 16>>
    ELSE IF Len(ss) = 3
    THEN <<ss[1] * 4 + ss[2] \div 16, (ss[2] % 16) * 16 + ss[3] \div 4>>
    ELSE <<ss[1] * 4 + ss[2] \div 16, (ss[2] % 16) * 16 + ss[3] \div 4,
           (ss[3] % 4) * 64 + ss[4]>>
             \o DecodeSextets(SubSeq(ss, 5, Len(ss)))

\* base64::decode: an error for a character outside the alphabet or a length
\* no encoding has; else the bytes, however many they are.
decode(cs) ==
    LET body == Unpadded(cs)
    IN  IF /\ \A i \in 1..Len(body) : IsBase64Char(body[i])
           /\ Len(body) % 4 # 1
           /\ Len(body) = Len(cs) \/ Len(cs) % 4 = 0
        THEN [ok |-> TRUE, bytes |-> DecodeSextets([i \in 1..Len(body) |-> SextetOf(body[i])])]
        ELSE [ok |-> FALSE, bytes |-> <<>>]

\* str::trim
RECURSIVE TrimStart(_)
TrimStart(cs) ==
    IF cs # <<>> /\ cs[1] \in Whitespace THEN TrimStart(Tail(cs)) ELSE cs

RECURSIVE TrimEnd(_)
TrimEnd(cs) ==
    IF cs # <<>> /\ cs[Len(cs)] \in Whitespace
    THEN TrimEnd(SubSeq(cs, 1, Len(cs) - 1)) ELSE cs

trim(cs) == TrimEnd(TrimStart(cs))

WORLD_PRIVATE ==
    <<"4", "v", "Q", "4", "E", "o", "I", "c", "d", "k", "S",
      "n", "3", "l", "i", "U", "4", "F", "k", "i", "9", "v",
      "y", "x", "1", "C", "s", "F", "b", "5", "R", "l", "u",
      "E", "5", "g", "Z", "n", "G", "f", "E", "y", "g", "=">>

WORLD_PUBLIC ==
    <<"x", "+", "s", "s", "Y", "n", "I", "l", "V", "u", "k",
      "9", "N", "k", "k", "x", "F", "b", "d", "X", "m", "N",
      "X", "C", "a", "A", "D", "0", "Y", "B", "3", "1", "a",
      "a", "U", "z", "5", "x", "s", "g", "P", "V", "I", "=">>

KeyTypes == {"Public", "Private"}

\* The text that stands for the WORLD key of the other type.
WorldKeySwapped(key_type) == IF key_type = "Public" THEN WORLD_PRIVATE ELSE WORLD_PUBLIC

\* match key_type { KeyType::Public => WORLD_PUBLIC, KeyType::Private => WORLD_PRIVATE }
WorldKey(key_type) == IF key_type = "Public" THEN WORLD_PUBLIC ELSE WORLD_PRIVATE

\* is_world(&buffer.trim()): the text is the name of the WORLD key.
IsWorldText(cs) == cs = <<"+">>

\* The bytes of a stream that holds a text.
Chars(cs) == IF cs = <<>> THEN <<>> ELSE <<Slice([t |-> "chars", cs |-> cs], 0, Len(cs))>>

\* read_to_string: the text of a stream, or an error when its bytes are no text.
IsText(bs) == \A i \in 1..Len(bs) : bs[i].r.t = "chars"

RECURSIVE StringOf(_)
StringOf(bs) ==
    IF bs = <<>> THEN <<>>
    ELSE SubSeq(bs[1].r.cs, bs[1].lo + 1, bs[1].hi) \o StringOf(Tail(bs))

\* The key pair the name "+" stands for (WORLD_PRIVATE, WORLD_PUBLIC).
World == "world"

\* The 32 bytes of the private keys of the model.
KeyBytes(k) ==
    IF k = World THEN decode(WORLD_PRIVATE).bytes
    ELSE IF k = "alice" THEN [i \in 1..32 |-> i]
    ELSE [i \in 1..32 |-> 255 - i]

\* The 32 bytes of their public keys.
PubKeyBytes(p) ==
    IF p = Pub(World) THEN decode(WORLD_PUBLIC).bytes
    ELSE IF p = Pub("alice") THEN [i \in 1..32 |-> (7 * i) % 256]
    ELSE [i \in 1..32 |-> (11 * i + 128) % 256]

\* The keys these bytes are.
PrivKeyOf(bytes) == CHOOSE k \in PrivKeys \cup {World} : KeyBytes(k) = bytes

PubKeyOf(bytes) == CHOOSE p \in { Pub(k) : k \in PrivKeys \cup {World} } : PubKeyBytes(p) = bytes

\* A key as text: the base64 of its 32 bytes.
KeyTextLen == ((32 + 2) \div 3) * 4

PrivText(k) == Chars(encode(KeyBytes(k)))

PubText(k) == Chars(encode(PubKeyBytes(k)))

KeyOk(files, out) == [status |-> "ok", kind |-> "none", files |-> files, stdout |-> out]

KeyErr(kind, files, out) == [status |-> "err", kind |-> kind, files |-> files, stdout |-> out]

\* write_key without its first two checks.
write_key_anywhere(files, out, fname, data, key_type) ==
    LET encoded == encode(data)
        s == IF encoded = WorldKey(key_type) THEN <<"+">> ELSE encoded
    IN  IF is_stdinout(fname)
        THEN KeyOk(files, Cat(out, Chars(s \o <<"\n">>)))
        ELSE KeyOk([f \in DOMAIN files \cup {fname} |->
                        IF f = fname THEN File(Chars(s)) ELSE files[f]], out)

\* write_key: the files and the stdout it leaves, and what it returns.
write_key(files, out, fname, data, key_type) ==
    IF is_none(fname) THEN KeyOk(files, out)
    ELSE IF is_world(fname) THEN KeyErr("world", files, out)
    ELSE LET encoded == encode(data)
             s == IF encoded = WorldKey(key_type) THEN <<"+">> ELSE encoded
         IN  IF is_stdinout(fname)
             THEN KeyOk(files, Cat(out, Chars(s \o <<"\n">>)))
             ELSE KeyOk([files EXCEPT ![fname] = File(Chars(s))], out)

KeyRead(status, kind, some, bytes, left) ==
    [status |-> status, kind |-> kind, some |-> some, bytes |-> bytes, stdin |-> left]

\* read_key: what it returns and what it leaves of stdin.
read_key(files, input, fname, key_type) ==
    IF is_none(fname) THEN KeyRead("ok", "none", FALSE, <<>>, input)
    ELSE IF is_world(fname)
    THEN LET key == decode(trim(WorldKey(key_type)))
         IN  IF key.ok THEN KeyRead("ok", "none", TRUE, key.bytes, input)
             ELSE KeyRead("err", "bad_key", FALSE, <<>>, input)
    ELSE LET source == IF is_stdinout(fname) THEN input ELSE files[fname].data
             left == IF is_stdinout(fname) THEN <<>> ELSE input
         IN  IF ~is_stdinout(fname) /\ ~files[fname].exists
             THEN KeyRead("err", "io", FALSE, <<>>, left)
             ELSE IF ~IsText(source)
             THEN KeyRead("err", "io", FALSE, <<>>, left)
             ELSE LET read == StringOf(source)
                      buffer == IF IsWorldText(trim(read)) THEN WorldKey(key_type) ELSE read
                      key == decode(trim(buffer))
                  IN  IF key.ok THEN KeyRead("ok", "none", TRUE, key.bytes, left)
                      ELSE KeyRead("err", "bad_key", FALSE, <<>>, left)

\* A call of write_key and a call of read_key: the arguments and the results.
NoRead == [status |-> "none", kind |-> "none", some |-> FALSE, bytes |-> <<>>]

KeyFrame(args) ==
    [fname |-> args.fname, data |-> args.data, key_type |-> args.key_type,
     written |-> "none", rname |-> ".", rtype |-> "Public", rres |-> NoRead]

IdleKeys == KeyFrame([fname |-> ".", data |-> <<>>, key_type |-> "Public"])

InitFs(len) ==
    [f \in FileNames |->
        CASE f = "plain.bin" -> File(PlainBytes(len))
          [] f = "alice.key" -> File(PrivText("alice"))
          [] f = "bob.key" -> File(PrivText("bob"))
          [] f = "alice.pub" -> File(PubText(Pub("alice")))
          [] f = "bob.pub" -> File(PubText(Pub("bob")))
          [] OTHER -> NoFile]

(* ------------------------------------------------------------------ *)
(* The ciphertext between encrypt and decrypt                          *)
(* ------------------------------------------------------------------ *)
\* The offsets at which the objects of a byte string start and end.
RECURSIVE Bounds(_, _)
Bounds(bs, off) ==
    IF bs = <<>> THEN {off}
    ELSE {off} \cup Bounds(Tail(bs), off + (bs[1].hi - bs[1].lo))

\* The offsets at, just before and just after those.
Edges(bs) ==
    { p \in { b + dlt : b \in Bounds(bs, 0), dlt \in {-1, 0, 1} } :
        p >= 0 /\ p <= BLen(bs) }

Junk == <<Slice([t |-> "junk"], 0, 1)>>

\* bs with the byte at offset p changed.
FlipAt(bs, p) == Cat(BTake(bs, p), Junk \o BDrop(bs, p + 1))

OTHER_PROLOGUE == "PETER V2"

\* The same message as an encoder bound to another prologue produces it.
RECURSIVE Foreign(_)
Foreign(bs) ==
    IF bs = <<>> THEN <<>>
    ELSE LET h == bs[1]
             r == IF h.r.t = "hs" THEN [h.r EXCEPT !.prologue = OTHER_PROLOGUE]
                  ELSE IF h.r.t = "msg" THEN [h.r EXCEPT !.key.prologue = OTHER_PROLOGUE]
                  ELSE h.r
         IN  <<Slice(r, h.lo, h.hi)>> \o Foreign(Tail(bs))

Swap(s, i, j) == [k \in 1..Len(s) |-> IF k = i THEN s[j] ELSE IF k = j THEN s[i] ELSE s[k]]

InsertAt(s, j, x) == SubSeq(s, 1, j - 1) \o <<x>> \o SubSeq(s, j, Len(s))

RemoveAt(s, i) == SubSeq(s, 1, i - 1) \o SubSeq(s, i + 1, Len(s))

\* What encrypt left behind: the output file, or what it wrote to stdout.
Ciphertext == IF is_stdinout(e.fout) THEN stdout ELSE fs[e.fout].data

\* The transport records encrypt produced: the length marker and the payload
\* records, in order.
TransportRecords == SubSeq(e.sent, 2, Len(e.sent))

\* The ciphertext holds every produced record whole.
Intact == Ciphertext = CatAll(e.sent)

Untouched == [tamper |-> "none", at |-> 0, to |-> 0]

(* ------------------------------------------------------------------ *)
(* core.rs: decrypt                                                    *)
(* ------------------------------------------------------------------ *)
DecArgs ==
    [privkey : PrivKeys, pubkey : {None} \cup { Some(k) : k \in PubKeys },
     fin : {"ct.bin", "-"}, fout : {"out.bin", "-"}]

DecFrame(args) ==
    [privkey |-> args.privkey, pubkey |-> args.pubkey, fin |-> args.fin,
     fout |-> args.fout, payload_length |-> 0, payload_length2 |-> 0, in_pos |-> 0,
     buffer_in |-> <<>>, hs |-> "none", noise |-> "none", log |-> <<>>,
     bodies |-> <<>>]

IdleDec == DecFrame([privkey |-> "alice", pubkey |-> None, fin |-> "-", fout |-> "-"])

\* The ciphertext reaches the reader decrypt will open: the named file, or
\* stdin of the decrypting command.
HandOver(how, data) ==
    /\ \E args \in DecArgs :
        /\ d' = DecFrame(args)
        /\ fs' = IF is_stdinout(args.fin) THEN fs
                 ELSE [fs EXCEPT ![args.fin] = File(data)]
        /\ stdin' = IF is_stdinout(args.fin) THEN data ELSE <<>>
    /\ wire' = how
    /\ stdout' = <<>>
    /\ pc' = "dec_call"
    /\ UNCHANGED <<encVars, dRes, cliVars, kf>>

NoCli ==
    [command |-> "none", privkey |-> ".", pubkey |-> ".", input |-> ".", output |-> ".",
     foundkey |-> ".", piped |-> <<>>]

\* encrypt, called directly, has returned success.
Encrypted == pc = "enc_ret" /\ cli = NoCli /\ eRes.status = "ok"

\* The ciphertext arrives as encrypt left it.
Deliver ==
    /\ Encrypted
    /\ HandOver(Untouched, Ciphertext)

\* A non-empty suffix is cut off.
Truncate ==
    /\ Encrypted
    /\ Intact
    /\ \E cut \in Edges(Ciphertext) :
        /\ cut < BLen(Ciphertext)
        /\ HandOver([tamper |-> "truncate", at |-> cut, to |-> 0], BTake(Ciphertext, cut))

\* One byte of the handshake message is changed.
CorruptHandshake ==
    /\ Encrypted
    /\ Intact
    /\ \E p \in Edges(Ciphertext) :
        /\ p < HEADER_LENGTH
        /\ HandOver([tamper |-> "corrupt", at |-> p, to |-> 0], FlipAt(Ciphertext, p))

\* The file comes from an encoder bound to another prologue.
OtherVersion ==
    /\ Encrypted
    /\ Intact
    /\ HandOver([tamper |-> "version", at |-> 0, to |-> 0], Foreign(Ciphertext))

\* Two transport records change places.
Reorder ==
    /\ Encrypted
    /\ Intact
    /\ \E i \in 1..Len(TransportRecords), j \in 1..Len(TransportRecords) :
        /\ i < j
        /\ HandOver([tamper |-> "reorder", at |-> i, to |-> j],
                    CatAll(<<e.sent[1]>> \o Swap(TransportRecords, i, j)))

\* A copy of transport record i is put in at some place.
Duplicate ==
    /\ Encrypted
    /\ Intact
    /\ \E i \in 1..Len(TransportRecords) :
      \E j \in 1..(Len(TransportRecords) + 1) :
        HandOver([tamper |-> "duplicate", at |-> i, to |-> j],
                 CatAll(<<e.sent[1]>> \o InsertAt(TransportRecords, j, TransportRecords[i])))

\* One transport record is taken out.
Drop ==
    /\ Encrypted
    /\ Intact
    /\ \E i \in 1..Len(TransportRecords) :
        HandOver([tamper |-> "drop", at |-> i, to |-> 0],
                 CatAll(<<e.sent[1]>> \o RemoveAt(TransportRecords, i)))

\* The bytes decrypt has not read yet.
DecInput == IF is_stdinout(d.fin) THEN stdin ELSE BDrop(fs[d.fin].data, d.in_pos)

\* The stream after n more bytes were read from it.
Consumed(n) == IF is_stdinout(d.fin) THEN BDrop(stdin, n) ELSE stdin

\* The bytes up to the end of the first object of a byte string.
Edge(bs) == IF bs = <<>> THEN 0 ELSE bs[1].hi - bs[1].lo

\* One read call in the place of read_exact: it returns before the buffer is
\* full.
read_once(input, n) == BTake(input, n - 1)

\* read_exact: reads until the buffer of n bytes is full, whatever each read
\* returns, or the stream has ended (an error then).
read_exact(input, n) == BTake(input, n)

\* A read that did not fill the buffer taken for the end of the stream.
ShortRead(s_payload_enc) == s_payload_enc < MAX_MESSAGE_LENGTH

\* decrypt: if s_payload_enc == 0 { break; }
EndOfStream(s_payload_enc) == s_payload_enc = 0

\* The length check left out.
LengthsUnchecked(payload_length, payload_length2) == TRUE

\* The length check accepting fewer bytes than declared.
LengthsAtMost(payload_length, payload_length2) == payload_length2 <= payload_length

\* decrypt: assert!(payload_length == payload_length2)
LengthsAgree(payload_length, payload_length2) == payload_length = payload_length2

\* The sender check left out.
SenderUnchecked(pubkey, remote_static) == TRUE

\* if let Some(pubkey_data) = pubkey { assert!(pubkey_data == remote_static) }
SenderAccepted(pubkey, remote_static) == pubkey.some => pubkey.key = remote_static

\* Lines 128-141: open the reader, then the writer; build the responder.
DecStart ==
    /\ pc = "dec_call"
    /\ IF ~is_stdinout(d.fin) /\ ~fs[d.fin].exists
       THEN /\ dRes' = Err("io")
            /\ pc' = "dec_ret"
            /\ UNCHANGED <<fs, d>>
       ELSE /\ fs' = open_writer(fs, d.fout)
            /\ d' = [d EXCEPT !.hs = build_responder(d.privkey, PROLOGUE),
                              !.log = Append(@, "open")]
            /\ pc' = "dec_hs"
            /\ UNCHANGED dRes
    /\ UNCHANGED <<stdin, stdout, encVars, wire, cliVars, kf>>

\* Lines 143-156: read_exact of the handshake message, verify it, switch to
\* transport mode.
DecHandshake ==
    /\ pc = "dec_hs"
    /\ LET buf == read_exact(DecInput, HEADER_LENGTH)
       IN  /\ stdin' = Consumed(BLen(buf))
           /\ IF BLen(buf) < HEADER_LENGTH
              THEN /\ dRes' = Err("io")
                   /\ d' = [d EXCEPT !.in_pos = @ + BLen(buf),
                                     !.log = Append(@, "read_exact")]
                   /\ pc' = "dec_ret"
              ELSE IF ~HandshakeVerifies(d.hs, buf)
              THEN /\ dRes' = Err("handshake")
                   /\ d' = [d EXCEPT !.in_pos = @ + BLen(buf),
                                     !.log = @ \o <<"read_exact", "read_message">>]
                   /\ pc' = "dec_ret"
              ELSE /\ d' = [d EXCEPT !.in_pos = @ + BLen(buf),
                                     !.noise = into_transport_mode(buf[1].r),
                                     !.log = @ \o <<"read_exact", "read_message",
                                                    "into_transport_mode">>]
                   /\ pc' = "dec_marker"
                   /\ UNCHANGED dRes
    /\ UNCHANGED <<fs, stdout, encVars, wire, cliVars, kf>>

\* Lines 157-172: read_exact of the encrypted length marker, decrypt and decode it.
DecMarker ==
    /\ pc = "dec_marker"
    /\ LET buf == read_exact(DecInput, SIZEMARKER_ENC_LENGTH)
       IN  /\ stdin' = Consumed(BLen(buf))
           /\ IF BLen(buf) < SIZEMARKER_ENC_LENGTH
              THEN /\ dRes' = Err("io")
                   /\ d' = [d EXCEPT !.in_pos = @ + BLen(buf),
                                     !.log = Append(@, "read_exact")]
                   /\ pc' = "dec_ret"
              ELSE IF ~RecordVerifies(d.noise, buf)
              THEN /\ dRes' = Err("record")
                   /\ d' = [d EXCEPT !.in_pos = @ + BLen(buf),
                                     !.log = @ \o <<"read_exact", "read_message">>]
                   /\ pc' = "dec_ret"
              ELSE IF BLen(buf[1].r.body) # SIZEMARKER_LENGTH
              THEN /\ dRes' = Panic("assert_sizemarker_length")
                   /\ d' = [d EXCEPT !.in_pos = @ + BLen(buf),
                                     !.log = @ \o <<"read_exact", "read_message">>]
                   /\ pc' = "dec_ret"
              ELSE /\ d' = [d EXCEPT !.in_pos = @ + BLen(buf),
                                     !.noise = NextNonce(@),
                                     !.payload_length = ReadU64BE(buf[1].r.body),
                                     !.payload_length2 = 0,
                                     !.log = @ \o <<"read_exact", "read_message">>]
                   /\ pc' = "dec_read"
                   /\ UNCHANGED dRes
    /\ UNCHANGED <<fs, stdout, encVars, wire, cliVars, kf>>

\* Lines 174-180 and 190-199: one read into the 65535-byte buffer; at end of
\* stream leave the loop, check the length, check the sender, return the
\* sender's static key.
DecRead ==
    /\ pc = "dec_read"
    /\ \E s_payload_enc \in ReadSizes(d.fin, BLen(DecInput), MAX_MESSAGE_LENGTH,
                                      Edge(DecInput)) :
        /\ stdin' = Consumed(s_payload_enc)
        /\ IF EndOfStream(s_payload_enc)
           THEN /\ dRes' = IF ~LengthsAgree(d.payload_length, d.payload_length2)
                           THEN Panic("assert_length")
                           ELSE IF ~SenderAccepted(d.pubkey, d.noise.remote_static)
                           THEN Panic("assert_sender")
                           ELSE OkValue(d.noise.remote_static)
                /\ d' = [d EXCEPT !.log = Append(@, "read")]
                /\ pc' = "dec_ret"
           ELSE /\ d' = [d EXCEPT !.buffer_in = BTake(DecInput, s_payload_enc),
                                  !.in_pos = @ + s_payload_enc,
                                  !.log = Append(@, "read")]
                /\ pc' = "dec_write"
                /\ UNCHANGED dRes
    /\ UNCHANGED <<fs, stdout, encVars, wire, cliVars, kf>>

\* Lines 181-188: decrypt what the read returned as one record and write the
\* plaintext with one write call.
DecWrite ==
    /\ pc = "dec_write"
    /\ IF ~RecordVerifies(d.noise, d.buffer_in)
       THEN /\ dRes' = Err("record")
            /\ d' = [d EXCEPT !.log = Append(@, "read_message")]
            /\ pc' = "dec_ret"
            /\ UNCHANGED <<fs, stdout>>
       ELSE LET out == d.buffer_in[1].r.body
            IN  \E n \in WriteAccepts(d.fout, BLen(out)) :
                /\ fs' = WriteFile(fs, d.fout, out, n)
                /\ stdout' = WriteStdout(stdout, d.fout, out, n)
                /\ d' = [d EXCEPT !.noise = NextNonce(@),
                                  !.payload_length2 = @ + BLen(out),
                                  !.log = @ \o <<"read_message", "write">>,
                                  !.bodies = Append(@, out)]
                /\ pc' = "dec_read"
                /\ UNCHANGED dRes
    /\ UNCHANGED <<stdin, encVars, wire, cliVars, kf>>

(* ------------------------------------------------------------------ *)
(* main.rs: the enc and dec commands                                   *)
(* ------------------------------------------------------------------ *)
IdleMain == [privkey |-> "none", pubkey |-> None, log |-> <<>>]

NotExited == [code |-> "running", stderr |-> "none"]

ExitZero == [code |-> "zero", stderr |-> "none"]

\* main! prints the error and exits non-zero; a panic prints its message and
\* ends the process non-zero.
ExitFailure(how) == [code |-> "nonzero", stderr |-> how]

ExitOf(res) ==
    IF res.status = "ok" THEN ExitZero
    ELSE IF res.status = "err" THEN ExitFailure("error")
    ELSE ExitFailure("panic")

\* .map(|s| is_stdinout(s) as u8).sum()
CountStd(names) == Cardinality({ i \in 1..Len(names) : is_stdinout(names[i]) })

\* The check off by one.
MoreThanTwo(n) == n > 2

\* if n_stdin > 1 / if n_stdout > 1
MoreThanOne(n) == n > 1

\* Lines 115-127: at most one of input, privkey, pubkey is "-".
MainEncrypt ==
    /\ pc = "main"
    /\ cli.command = "enc"
    /\ IF MoreThanOne(CountStd(<<cli.input, cli.privkey, cli.pubkey>>))
       THEN exit' = ExitFailure("error") /\ pc' = "exit"
       ELSE exit' = exit /\ pc' = "main_privkey"
    /\ UNCHANGED <<fs, stdin, stdout, encVars, decVars, cli, m, kf>>

\* Lines 129-130.
MainEncPrivkey ==
    /\ pc = "main_privkey"
    /\ cli.command = "enc"
    /\ LET r == read_key(fs, stdin, cli.privkey, "Private")
       IN  /\ stdin' = r.stdin
           /\ IF r.status = "ok"
              THEN /\ m' = [m EXCEPT !.privkey = PrivKeyOf(r.bytes),
                                     !.log = Append(@, "read_key")]
                   /\ pc' = "main_pubkey"
                   /\ UNCHANGED exit
              ELSE /\ m' = [m EXCEPT !.log = Append(@, "read_key")]
                   /\ exit' = ExitFailure("error")
                   /\ pc' = "exit"
    /\ UNCHANGED <<fs, stdout, encVars, decVars, cli, kf>>

\* Lines 132-136: the public key, then the call of encrypt.
MainEncPubkey ==
    /\ pc = "main_pubkey"
    /\ cli.command = "enc"
    /\ LET r == read_key(fs, stdin, cli.pubkey, "Public")
       IN  /\ stdin' = r.stdin
           /\ IF r.status = "ok"
              THEN /\ m' = [m EXCEPT !.pubkey = Some(PubKeyOf(r.bytes)),
                                     !.log = Append(@, "read_key")]
                   /\ e' = EncFrame([privkey |-> m.privkey,
                                     pubkey |-> PubKeyOf(r.bytes),
                                     fin |-> cli.input, fout |-> cli.output])
                   /\ pc' = "enc_call"
                   /\ UNCHANGED exit
              ELSE /\ m' = [m EXCEPT !.log = Append(@, "read_key")]
                   /\ exit' = ExitFailure("error")
                   /\ pc' = "exit"
                   /\ UNCHANGED e
    /\ UNCHANGED <<fs, stdout, eRes, decVars, cli, kf>>

\* Lines 136-137 and 177: encrypt has returned.
MainEncDone ==
    /\ pc = "enc_ret"
    /\ cli.command = "enc"
    /\ exit' = ExitOf(eRes)
    /\ pc' = "exit"
    /\ UNCHANGED <<fs, stdin, stdout, encVars, decVars, cli, m, kf>>

\* Lines 138-159: at most one of input, privkey, pubkey is "-", and at most
\* one of output, foundkey.
MainDecrypt ==
    /\ pc = "main"
    /\ cli.command = "dec"
    /\ IF MoreThanOne(CountStd(<<cli.input, cli.privkey, cli.pubkey>>))
       THEN exit' = ExitFailure("error") /\ pc' = "exit"
       ELSE IF MoreThanOne(CountStd(<<cli.output, cli.foundkey>>))
       THEN exit' = ExitFailure("error") /\ pc' = "exit"
       ELSE exit' = exit /\ pc' = "main_privkey"
    /\ UNCHANGED <<fs, stdin, stdout, encVars, decVars, cli, m, kf>>

\* Lines 161-162.
MainDecPrivkey ==
    /\ pc = "main_privkey"
    /\ cli.command = "dec"
    /\ LET r == read_key(fs, stdin, cli.privkey, "Private")
       IN  /\ stdin' = r.stdin
           /\ IF r.status = "ok"
              THEN /\ m' = [m EXCEPT !.privkey = PrivKeyOf(r.bytes),
                                     !.log = Append(@, "read_key")]
                   /\ pc' = "main_pubkey"
                   /\ UNCHANGED exit
              ELSE /\ m' = [m EXCEPT !.log = Append(@, "read_key")]
                   /\ exit' = ExitFailure("error")
                   /\ pc' = "exit"
    /\ UNCHANGED <<fs, stdout, encVars, decVars, cli, kf>>

\* Lines 164-173: the expected sender key unless the name is ".", then the
\* call of decrypt.
MainDecPubkey ==
    /\ pc = "main_pubkey"
    /\ cli.command = "dec"
    /\ IF is_none(cli.pubkey)
       THEN /\ d' = DecFrame([privkey |-> m.privkey, pubkey |-> None,
                              fin |-> cli.input, fout |-> cli.output])
            /\ pc' = "dec_call"
            /\ UNCHANGED <<stdin, m, exit>>
       ELSE LET r == read_key(fs, stdin, cli.pubkey, "Public")
            IN  /\ stdin' = r.stdin
                /\ IF r.status = "ok"
                   THEN /\ m' = [m EXCEPT !.pubkey = Some(PubKeyOf(r.bytes)),
                                          !.log = Append(@, "read_key")]
                        /\ d' = DecFrame([privkey |-> m.privkey,
                                          pubkey |-> Some(PubKeyOf(r.bytes)),
                                          fin |-> cli.input, fout |-> cli.output])
                        /\ pc' = "dec_call"
                        /\ UNCHANGED exit
                   ELSE /\ m' = [m EXCEPT !.log = Append(@, "read_key")]
                        /\ exit' = ExitFailure("error")
                        /\ pc' = "exit"
                        /\ UNCHANGED d
    /\ UNCHANGED <<fs, stdout, encVars, wire, dRes, cli, kf>>

\* Lines 173-177: decrypt has returned; write_key of the sender's key to
\* foundkey ("." discards it, "+" is refused, "-" prints it).
MainDecDone ==
    /\ pc = "dec_ret"
    /\ cli.command = "dec"
    /\ IF dRes.status # "ok"
       THEN exit' = ExitOf(dRes) /\ UNCHANGED <<fs, stdout, m>>
       ELSE LET w == write_key(fs, stdout, cli.foundkey, PubKeyBytes(dRes.value), "Public")
            IN  /\ fs' = w.files
                /\ stdout' = w.stdout
                /\ exit' = IF w.status = "ok" THEN ExitZero ELSE ExitFailure("error")
                /\ m' = [m EXCEPT !.log = Append(@, "write_key")]
    /\ pc' = "exit"
    /\ UNCHANGED <<stdin, encVars, decVars, cli, kf>>

\* What the shell pipes into a command: the thing its "-" stands for.
Piped(args, input, privtext, pubtext) ==
    IF is_stdinout(args.input) THEN input
    ELSE IF is_stdinout(args.privkey) THEN privtext
    ELSE IF is_stdinout(args.pubkey) THEN pubtext
    ELSE <<>>

EncCommands ==
    [command : {"enc"}, privkey : {"alice.key", "+", "-"}, pubkey : {"bob.pub", "-"},
     input : {"plain.bin", "-"}, output : {"ct.bin", "-"}, foundkey : {"."},
     piped : {<<>>}]

DecCommands ==
    [command : {"dec"}, privkey : {"bob.key", "-"},
     pubkey : {".", "alice.pub", "bob.pub", "-"}, input : {"ct.bin", "-"},
     output : {"out.bin", "-"}, foundkey : {".", "+", "-", "found.pub"},
     piped : {<<>>}]

\* After a successful enc the user runs dec on the ciphertext: enc's output
\* file, or what enc printed, saved as ct.bin and piped into dec.
NextCommand ==
    /\ pc = "exit"
    /\ cli.command = "enc"
    /\ exit = ExitZero
    /\ \E args \in DecCommands :
        LET piped == Piped(args, Ciphertext, PrivText("bob"), PubText(Pub("alice")))
        IN  /\ cli' = [args EXCEPT !.piped = piped]
            /\ stdin' = piped
    /\ fs' = [fs EXCEPT !["ct.bin"] = File(Ciphertext)]
    /\ stdout' = <<>>
    /\ m' = IdleMain
    /\ exit' = NotExited
    /\ pc' = "main"
    /\ UNCHANGED <<encVars, decVars, kf>>

(* ------------------------------------------------------------------ *)
(* The run: encrypt a file, carry the ciphertext, decrypt it           *)
(* ------------------------------------------------------------------ *)
Init ==
    /\ pc = "enc_call"
    /\ \E len \in PlainLengths : fs = InitFs(len)
    /\ stdin = <<>>
    /\ stdout = <<>>
    /\ \E args \in EncArgs : e = EncFrame(args)
    /\ eRes = Running
    /\ wire = Untouched
    /\ d = IdleDec
    /\ dRes = Running
    /\ cli = NoCli
    /\ m = IdleMain
    /\ exit = NotExited
    /\ kf = IdleKeys

Next ==
    \/ EncStart
    \/ EncHandshake
    \/ EncMarker
    \/ EncRead
    \/ EncWrite
    \/ InputGrows
    \/ InputShrinks
    \/ Deliver
    \/ Truncate
    \/ CorruptHandshake
    \/ OtherVersion
    \/ Reorder
    \/ Duplicate
    \/ Drop
    \/ DecStart
    \/ DecHandshake
    \/ DecMarker
    \/ DecRead
    \/ DecWrite

Spec == Init /\ [][Next]_vars

(* ------------------------------------------------------------------ *)
(* The run from the command line: enc, then dec of its output          *)
(* ------------------------------------------------------------------ *)
CliLengths == {0, 1, MAX_PAYLOAD_PART_LENGTH + 1}

IdleEnc ==
    EncFrame([privkey |-> "alice", pubkey |-> Pub("bob"), fin |-> "-", fout |-> "-"])

CliInit ==
    /\ pc = "main"
    /\ \E len \in CliLengths, args \in EncCommands :
        LET piped == Piped(args, PlainBytes(len), PrivText("alice"), PubText(Pub("bob")))
        IN  /\ fs = InitFs(len)
            /\ cli = [args EXCEPT !.piped = piped]
            /\ stdin = piped
    /\ stdout = <<>>
    /\ e = IdleEnc
    /\ eRes = Running
    /\ wire = Untouched
    /\ d = IdleDec
    /\ dRes = Running
    /\ m = IdleMain
    /\ exit = NotExited
    /\ kf = IdleKeys

CliNext ==
    \/ MainEncrypt
    \/ MainEncPrivkey
    \/ MainEncPubkey
    \/ EncStart
    \/ EncHandshake
    \/ EncMarker
    \/ EncRead
    \/ EncWrite
    \/ MainEncDone
    \/ NextCommand
    \/ MainDecrypt
    \/ MainDecPrivkey
    \/ MainDecPubkey
    \/ DecStart
    \/ DecHandshake
    \/ DecMarker
    \/ DecRead
    \/ DecWrite
    \/ MainDecDone

SpecCli == CliInit /\ [][CliNext]_vars

(* ------------------------------------------------------------------ *)
(* Keys: write_key of a key, read_key of a name                        *)
(* ------------------------------------------------------------------ *)
KeyNames == {"found.pub", "-", ".", "+"}

\* Keys of 32 bytes, the two WORLD keys among them.
KeySamples ==
    {KeyBytes(World), PubKeyBytes(Pub(World)), KeyBytes("alice"), PubKeyBytes(Pub("bob")),
     [i \in 1..32 |-> 0], [i \in 1..32 |-> 255]}

KeyArgs == [fname : KeyNames, data : KeySamples, key_type : KeyTypes]

\* Texts read_key may find: a key; a key as println leaves it; a key between
\* white space; the name of the WORLD key; the base64 of 31, 33, 3 and 0 bytes;
\* and texts that are no base64.
KeyTexts ==
    LET key == encode(KeyBytes("alice"))
    IN  {key, key \o <<"\n">>, <<" ", "\n">> \o key \o <<"\n", " ">>,
         <<"+">>, <<"+", "\n">>,
         encode(SubSeq(KeyBytes("alice"), 1, 31)), encode(KeyBytes("alice") \o <<0>>),
         encode(<<1, 2, 3>>), <<>>,
         <<"!">> \o Tail(key), SubSeq(key, 1, 41), <<"A">>,
         SubSeq(key, 1, 20) \o <<"\n">> \o SubSeq(key, 21, Len(key))}

KeysInit ==
    /\ pc = "key_call"
    /\ \E text \in KeyTexts, found \in BOOLEAN :
        /\ fs = [f \in FileNames |->
                    IF f = "found.pub" /\ found THEN File(Chars(text)) ELSE NoFile]
        /\ stdin = Chars(text)
    /\ stdout = <<>>
    /\ \E args \in KeyArgs : kf = KeyFrame(args)
    /\ e = IdleEnc
    /\ eRes = Running
    /\ wire = Untouched
    /\ d = IdleDec
    /\ dRes = Running
    /\ cli = NoCli
    /\ m = IdleMain
    /\ exit = NotExited

\* write_key(fname, data, key_type)
WriteKey ==
    /\ pc = "key_call"
    /\ LET w == write_key(fs, stdout, kf.fname, kf.data, kf.key_type)
       IN  /\ fs' = w.files
           /\ stdout' = w.stdout
           /\ kf' = [kf EXCEPT !.written = w.status]
    /\ pc' = "key_written"
    /\ UNCHANGED <<stdin, encVars, decVars, cli, m, exit>>

\* read_key(rname, rtype), of a name that was written or of one that was not.
ReadKey ==
    /\ pc \in {"key_call", "key_written"}
    /\ \E rname \in KeyNames, rtype \in KeyTypes :
        LET r == read_key(fs, stdin, rname, rtype)
        IN  /\ stdin' = r.stdin
            /\ kf' = [kf EXCEPT !.rname = rname, !.rtype = rtype,
                              !.rres = [status |-> r.status, kind |-> r.kind,
                                        some |-> r.some, bytes |-> r.bytes]]
    /\ pc' = "key_ret"
    /\ UNCHANGED <<fs, stdout, encVars, decVars, cli, m, exit>>

KeysNext ==
    \/ WriteKey
    \/ ReadKey

SpecKeys == KeysInit /\ [][KeysNext]_vars

(* ------------------------------------------------------------------ *)
(* Properties                                                          *)
(* ------------------------------------------------------------------ *)
Decrypting == pc \in {"dec_call", "dec_hs", "dec_marker", "dec_read", "dec_write", "dec_ret"}

Returned == pc = "dec_ret"

\* The ciphertext and the plaintext go through files, untouched.
ThroughFiles ==
    /\ Decrypting
    /\ wire = Untouched
    /\ ~is_stdinout(e.fout)
    /\ ~is_stdinout(d.fin)
    /\ ~is_stdinout(d.fout)

ForRecipient == Pub(d.privkey) = e.pubkey

\* What decrypt has delivered to its output.
Delivered == IF is_stdinout(d.fout) THEN stdout ELSE fs[d.fout].data

\* C1: round trip.  A file encrypted by encrypt(priv_A, pub_B, x) into a file and
\* decrypted by decrypt(priv_B, no expected sender) into a file gives success,
\* exactly x in the output, and pub_A as the sender identity, for every length
\* of x.
C1_RoundTrip ==
    (Returned /\ ThroughFiles /\ ForRecipient /\ ~d.pubkey.some)
        => /\ dRes.status = "ok"
           /\ Delivered = fs[e.fin].data
           /\ dRes.value = Pub(e.privkey)

\* A round trip of a plaintext of several records, the last one short.
C1_Witness ==
    /\ Returned /\ ThroughFiles /\ ForRecipient /\ ~d.pubkey.some
    /\ dRes.status = "ok"
    /\ BLen(fs[e.fin].data) = 2 * MAX_PAYLOAD_PART_LENGTH + 1
    /\ Len(d.bodies) = 3

\* C2: sender verification.  Decrypt succeeds with an expected sender key only
\* if that key is the sender's static key; on an untouched file for this
\* recipient it succeeds when the expected key is the sender's, fails on the
\* sender check when it is another key, and with no expected key succeeds and
\* returns the sender's key.
C2_SenderVerification ==
    /\ (Returned /\ dRes.status = "ok")
           => /\ dRes.value = Pub(e.privkey)
              /\ d.pubkey.some => d.pubkey.key = Pub(e.privkey)
    /\ (Returned /\ ThroughFiles /\ ForRecipient)
           => IF d.pubkey.some /\ d.pubkey.key # Pub(e.privkey)
              THEN dRes.status # "ok" /\ dRes.kind = "assert_sender"
              ELSE dRes.status = "ok" /\ dRes.value = Pub(e.privkey)

\* Decrypt refused a file because the expected sender key is not the sender's.
C2_Witness ==
    /\ Returned /\ ThroughFiles /\ ForRecipient
    /\ d.pubkey.some /\ d.pubkey.key # Pub(e.privkey)
    /\ dRes.kind = "assert_sender"

\* C3: truncation.  Decrypt of a ciphertext with a non-empty suffix cut off never
\* returns success, with any reader; and leaving the loop at end of stream with
\* fewer payload bytes than declared is a failure.
C3_TruncationFails ==
    /\ (Returned /\ wire.tamper = "truncate") => dRes.status # "ok"
    /\ (Returned /\ d.payload_length2 < d.payload_length) => dRes.status # "ok"

\* A file cut at a record boundary: every record left verifies, and decrypt
\* fails at the end of the stream.
C3_Witness ==
    /\ Returned /\ wire.tamper = "truncate" /\ ForRecipient
    /\ Len(d.bodies) >= 1
    /\ d.payload_length2 < d.payload_length
    /\ dRes.kind = "assert_length"

RECURSIVE SumLen(_)
SumLen(ss) == IF ss = <<>> THEN 0 ELSE BLen(ss[1]) + SumLen(Tail(ss))

\* C4: whenever decrypt returns success, the plaintext lengths of the decrypted
\* records add up to the value of the length marker, which is the value encrypt
\* put in it.
C4_LengthInvariant ==
    (Returned /\ dRes.status = "ok")
        => /\ SumLen(d.bodies) = d.payload_length
           /\ d.payload_length = e.payload_length

\* A success over several records.
C4_Witness ==
    /\ Returned /\ dRes.status = "ok"
    /\ Len(d.bodies) >= 2
    /\ d.payload_length > MAX_PAYLOAD_PART_LENGTH

\* A read call of the payload loop is issued in this step.
LoopReads == pc = "dec_read" /\ d'.log = Append(d.log, "read")

\* C5 as stated: once the sum has reached the declared length, decrypt issues
\* no further read of the input stream.
C5_NoReadAtDeclaredLength ==
    [][~(LoopReads /\ d.payload_length2 = d.payload_length)]_vars

\* C5 amended: the payload loop ends only when a read returns 0 bytes, at the
\* end of the stream; until then every pass issues a read, also when the sum
\* has reached the declared length.  Once the loop has ended no read follows,
\* and decrypt succeeds only if the sum equals the declared length.
C5_LoopEndsAtEndOfStream ==
    [][/\ pc = "dec_read" => LoopReads
       /\ (pc = "dec_read" /\ pc' = "dec_ret") => BLen(DecInput) = 0
       /\ (pc = "dec_read" /\ BLen(DecInput) > 0) => pc' = "dec_write"
       /\ pc = "dec_ret" => d'.log = d.log
       /\ (pc = "dec_read" /\ dRes'.status = "ok")
              => d.payload_length2 = d.payload_length]_vars

\* The loop has ended at the end of the stream after the sum had reached the
\* declared length one read earlier.
C5_Witness ==
    /\ Returned /\ dRes.status = "ok"
    /\ Len(d.bodies) >= 1
    /\ d.log[Len(d.log)] = "read"
    /\ d.log[Len(d.log) - 1] = "write"

\* The 96 bytes decrypt reads first are not a handshake message for its key
\* and prologue.
HandshakeRejected ==
    /\ Decrypting
    /\ \/ ~ForRecipient
       \/ wire.tamper \in {"corrupt", "version"}
    /\ wire.tamper = "truncate" => wire.at >= HEADER_LENGTH

\* C6: when the handshake message does not verify, decrypt fails at the
\* handshake: it never enters transport mode, reads nothing after the 96
\* bytes, and writes no plaintext.
C6_HandshakeFailureIsFatal ==
    HandshakeRejected
        => /\ pc \in {"dec_call", "dec_hs", "dec_ret"}
           /\ Returned => dRes = Err("handshake")
           /\ \A i \in 1..Len(d.log) :
                  d.log[i] \notin {"into_transport_mode", "read", "write"}
           /\ Cardinality({ i \in 1..Len(d.log) : d.log[i] = "read_exact" }) <= 1
           /\ d.in_pos <= HEADER_LENGTH
           /\ d.bodies = <<>>
           /\ Delivered = <<>>

\* Decrypt with the wrong recipient key has failed at the handshake.
C6_Witness ==
    /\ Returned /\ ~ForRecipient /\ wire = Untouched
    /\ dRes = Err("handshake")
    /\ d.log = <<"open", "read_exact", "read_message">>

Reshuffled == Decrypting /\ wire.tamper \in {"reorder", "duplicate", "drop"}

\* Encrypt seals the chunks of the input in the order it reads them, under
\* consecutive nonces.
SentInOrder ==
    /\ \A k \in 2..Len(e.sent) : e.sent[k][1].r.n = k - 2
    /\ CatAll([k \in 1..(Len(e.sent) - 2) |-> e.sent[k + 2][1].r.body])
           = BTake(fs[e.fin].data, e.payload_length2)

\* Decrypt accepts the records in the order it reads them, under consecutive
\* nonces.
AcceptedInOrder ==
    /\ Len(d.bodies) <= Len(e.sent) - 2
    /\ \A k \in 1..Len(d.bodies) : d.bodies[k] = e.sent[k + 2][1].r.body

\* C7 as stated: decrypt of a ciphertext whose transport records were
\* reordered, duplicated or dropped fails at record verification.
C7_FailsAtRecordVerification ==
    (Returned /\ Reshuffled /\ ForRecipient) => dRes = Err("record")

\* C7 amended: encrypt writes the records in the order it reads the chunks,
\* decrypt accepts them in the order it reads them, and decrypt of a
\* ciphertext whose transport records were reordered, duplicated or dropped
\* never returns success: it fails at record verification, or, when a record
\* was dropped and every record that is left verifies in its place, at reading
\* the length marker or at the length check after the loop.
C7_ReshuffledNeverAccepted ==
    /\ pc \in {"enc_read", "enc_write", "enc_ret"} => SentInOrder
    /\ Decrypting => AcceptedInOrder
    /\ (Returned /\ Reshuffled) => dRes.status # "ok"
    /\ (Returned /\ Reshuffled /\ ForRecipient)
           => \/ dRes = Err("record")
              \/ /\ wire.tamper = "drop"
                 /\ dRes \in {Err("io"), Panic("assert_length")}

\* Two records changed places and decrypt failed at the second one it read.
C7_Witness ==
    /\ Returned /\ wire.tamper = "reorder" /\ ForRecipient
    /\ wire.at >= 2
    /\ Len(d.bodies) >= 1
    /\ dRes = Err("record")

\* C8: every failure of decrypt ends the call by returning an error value.
C8_FailuresAreReturned ==
    Returned => dRes.status \in {"ok", "err"}

\* More "-" among the names than one command can serve.
UsageViolation ==
    \/ /\ cli.command \in {"enc", "dec"}
       /\ Cardinality({ f \in {"privkey", "pubkey", "input"} : cli[f] = "-" }) > 1
    \/ /\ cli.command = "dec"
       /\ cli.output = "-"
       /\ cli.foundkey = "-"

\* C9: a command line with more than one "-" among PRIV, PUB, INFILE, or for
\* dec with "-" for both OUT and FOUNDKEY, does one thing only: it ends with an
\* error.  No key is read, no file is created or written, stdin and stdout are
\* not touched, and neither encrypt nor decrypt is entered.
C9_ValidationFirst ==
    [][UsageViolation
          => /\ pc = "main"
             /\ pc' = "exit"
             /\ exit' = ExitFailure("error")
             /\ m' = IdleMain
             /\ UNCHANGED <<fs, stdin, stdout, e, eRes, d, dRes>>]_vars

\* dec with "-" for both OUT and FOUNDKEY, and one stdin consumer, has ended
\* with an error.
C9_Witness ==
    /\ pc = "exit"
    /\ cli.command = "dec"
    /\ cli.output = "-" /\ cli.foundkey = "-"
    /\ cli.input = "-" /\ cli.privkey # "-" /\ cli.pubkey # "-"
    /\ exit = ExitFailure("error")
    /\ m.log = <<>>

EncFromStdin == cli.command = "enc" /\ is_stdinout(cli.input)

\* C10: enc with INFILE "-" never reads stdin, never creates or writes its
\* output, never builds a session, and ends non-zero with a message.
C10_EncFromStdinRejected ==
    EncFromStdin
        => /\ stdin = cli.piped
           /\ stdout = <<>>
           /\ ~fs["ct.bin"].exists
           /\ e.hs = "none" /\ e.sent = <<>> /\ e.in_pos = 0
           /\ pc \in {"main", "main_privkey", "main_pubkey", "enc_call", "enc_ret", "exit"}
           /\ pc = "exit" => exit.code = "nonzero" /\ exit.stderr # "none"

\* enc with "-" for INFILE alone passed the check of the names, read both keys
\* and ended in encrypt's refusal, the plaintext still waiting on stdin.
C10_Witness ==
    /\ pc = "exit"
    /\ EncFromStdin
    /\ ~UsageViolation
    /\ cli.output = "ct.bin"
    /\ m.log = <<"read_key", "read_key">>
    /\ BLen(stdin) > 0
    /\ eRes = Panic("not_implemented")
    /\ exit = ExitFailure("panic")

\* write_key has written the key to a file and read_key has read that file as
\* a key of the same type.
WrittenAndRead ==
    /\ pc = "key_ret"
    /\ kf.written = "ok"
    /\ ~is_none(kf.fname) /\ ~is_world(kf.fname) /\ ~is_stdinout(kf.fname)
    /\ kf.rname = kf.fname
    /\ kf.rtype = kf.key_type

\* C11: write_key(f, k, t) to an ordinary file followed by read_key(f, t)
\* returns exactly the 32 bytes k, for either key type; the WORLD key of type t
\* is stored as the one character "+" ; and read_key of the name "+" returns
\* the WORLD public key for Public and the WORLD private key for Private.
C11_KeyTextRoundTrip ==
    /\ WrittenAndRead
           => /\ kf.rres.status = "ok" /\ kf.rres.some
              /\ kf.rres.bytes = kf.data
              /\ Len(kf.rres.bytes) = 32
    /\ (WrittenAndRead /\ encode(kf.data) = (IF kf.key_type = "Public"
                                            THEN WORLD_PUBLIC ELSE WORLD_PRIVATE))
           => fs[kf.fname].data = Chars(<<"+">>)
    /\ (WrittenAndRead /\ fs[kf.fname].data # Chars(<<"+">>))
           => BLen(fs[kf.fname].data) = KeyTextLen
    /\ (pc = "key_ret" /\ is_world(kf.rname))
           => /\ kf.rres.status = "ok" /\ kf.rres.some
              /\ encode(kf.rres.bytes) = (IF kf.rtype = "Public"
                                         THEN WORLD_PUBLIC ELSE WORLD_PRIVATE)

\* The WORLD public key was written as a public key, stored as "+", and read
\* back.
C11_Witness ==
    /\ WrittenAndRead
    /\ kf.key_type = "Public"
    /\ encode(kf.data) = WORLD_PUBLIC
    /\ fs[kf.fname].data = Chars(<<"+">>)
    /\ kf.rres.bytes = kf.data

\* C12 as stated: read_key returns a key only if its text is valid base64 of
\* exactly 32 bytes; any other text is rejected with the bad-key error.
C12_KeyLengthChecked ==
    (pc = "key_ret" /\ kf.rres.status = "ok" /\ kf.rres.some) => Len(kf.rres.bytes) = 32

\* C13: write_key to the name "+" returns an error and to the name "."
\* returns success; in both cases it creates no file and prints nothing.
C13_NoWriteToWorldOrNone ==
    [][(pc = "key_call" /\ pc' = "key_written" /\ (is_world(kf.fname) \/ is_none(kf.fname)))
          => /\ fs' = fs
             /\ stdout' = stdout
             /\ kf'.written = (IF is_world(kf.fname) THEN "err" ELSE "ok")]_vars

\* write_key of a key to the name "+" was refused.
C13_Witness ==
    /\ pc = "key_written"
    /\ is_world(kf.fname)
    /\ kf.written = "err"
    /\ stdout = <<>>
    /\ \A f \in DOMAIN fs : f # "found.pub" => ~fs[f].exists

Encrypting == pc \in {"enc_hs", "enc_marker", "enc_read", "enc_write", "enc_ret"}

\* What encrypt's output stream has received.
EncOutput == IF is_stdinout(e.fout) THEN stdout ELSE fs[e.fout].data

\* The calls of encrypt up to its n-th write.
RECURSIVE LoopLog(_)
LoopLog(n) ==
    IF n <= 0 THEN <<>> ELSE LoopLog(n - 1) \o <<"read", "write_message", "write">>

EncLogAfter(n) ==
    IF n = 0 THEN <<>>
    ELSE IF n = 1 THEN <<"write_message", "write", "into_transport_mode">>
    ELSE <<"write_message", "write", "into_transport_mode", "write_message", "write">>
             \o LoopLog(n - 2)

\* The stream received the writes in their order, each of them whole or short
\* of its last byte.
ReceivedInOrder ==
    \E short \in SUBSET (1..Len(e.sent)) :
        EncOutput = CatAll([i \in 1..Len(e.sent) |->
                              BTake(e.sent[i], BLen(e.sent[i]) - (IF i \in short THEN 1 ELSE 0))])

\* C14: encrypt hands its output stream first the 96-byte handshake message,
\* then the 24-byte encrypted length marker, then one record for each chunk of
\* the input in the order it was read, and after the record of the last chunk
\* only the read that finds the end of the input follows.  No transport record
\* precedes the handshake message, and the session goes into transport mode
\* exactly once, right after the write of the handshake message.
C14_OutputOrder ==
    LET n == Len(e.sent)
    IN  (pc = "enc_call" \/ Encrypting) =>
        /\ e.log \in {EncLogAfter(n), EncLogAfter(n) \o <<"read">>}
        /\ eRes.status = "ok" => (n >= 2 /\ e.log = EncLogAfter(n) \o <<"read">>)
        /\ Cardinality({ i \in 1..Len(e.log) : e.log[i] = "into_transport_mode" })
               = (IF n >= 1 THEN 1 ELSE 0)
        /\ n >= 1 => /\ e.sent[1] = HandshakeBytes(HandshakeMessage(e.hs))
                     /\ BLen(e.sent[1]) = 96
        /\ n >= 2 => /\ e.sent[2] = RecordBytes([t |-> "msg", key |-> HandshakeMessage(e.hs),
                                                  n |-> 0,
                                                  body |-> WriteU64BE(e.payload_length)])
                     /\ BLen(e.sent[2]) = 24
        /\ \A j \in 3..n :
               /\ Len(e.sent[j]) = 1
               /\ e.sent[j][1].r.t = "msg"
               /\ e.sent[j][1].r.key = HandshakeMessage(e.hs)
               /\ e.sent[j][1].r.n = j - 2
               /\ e.sent[j][1].r.body =
                      BTake(BDrop(fs[e.fin].data,
                                  SumLen([i \in 1..(j - 3) |-> e.sent[i + 2][1].r.body])),
                            BLen(e.sent[j][1].r.body))
               /\ BLen(e.sent[j][1].r.body) >= 1
               /\ BLen(e.sent[j][1].r.body) <= MAX_PAYLOAD_PART_LENGTH
               /\ (e.appended = 0 /\ ~e.cut /\ j < n)
                      => BLen(e.sent[j][1].r.body) = MAX_PAYLOAD_PART_LENGTH
               /\ e.sent[j] = RecordBytes(e.sent[j][1].r)
        /\ Encrypting => ReceivedInOrder
        /\ (Encrypting /\ ~is_stdinout(e.fout)) => EncOutput = CatAll(e.sent)

\* Encrypt has returned success after it wrote the handshake message, the
\* marker and two payload records, the second a short one, to a file.
C14_Witness ==
    /\ pc = "enc_ret" /\ eRes.status = "ok"
    /\ ~is_stdinout(e.fout)
    /\ Len(e.sent) = 4
    /\ BLen(e.sent[4]) = 1 + OVERHEAD_PER_MESSAGE
    /\ EncOutput = CatAll(e.sent)

\* The first read of the payload loop.
FirstLoopRead == LoopReads /\ \A i \in 1..Len(d.log) : d.log[i] # "read"

C16_WholeRecordWrites ==
    Encrypting => EncOutput = CatAll(e.sent)

\* C17 as stated: for a ciphertext as encrypt wrote it, whatever the input
\* stream returns of each read, the bytes handed to a transport decryption are
\* exactly one payload record of encrypt.
C17_OneRecordPerRead ==
    (pc = "dec_write" /\ wire = Untouched /\ ~is_stdinout(e.fout))
        => \E j \in 3..Len(e.sent) : d.buffer_in = e.sent[j]

\* C18 as stated: whenever decrypt returns success, whatever the writer accepts
\* of each write, the output holds the decrypted bodies in order and as many
\* bytes as the marker declares.
C18_CompletePlaintext ==
    (Returned /\ dRes.status = "ok")
        => /\ Delivered = CatAll(d.bodies)
           /\ BLen(Delivered) = d.payload_length

\* Decrypt has reported that the sender is not the expected one.
SenderMismatch == Returned /\ dRes.kind = "assert_sender"

\* C19: the sender's key is compared with the expected one only after the
\* payload loop has ended at the end of the stream and the length check has
\* passed: when the mismatch is reported, the write of every plaintext chunk has
\* been issued, the chunks add up to the declared length, and what was
\* written stays in the output (in a file: the whole plaintext).
C19_SenderCheckedLast ==
    /\ SenderMismatch
           => /\ d.pubkey.some /\ d.pubkey.key # d.noise.remote_static
              /\ BLen(DecInput) = 0
              /\ d.log[Len(d.log)] = "read"
              /\ d.payload_length2 = d.payload_length
              /\ SumLen(d.bodies) = d.payload_length
              /\ Cardinality({ i \in 1..Len(d.log) : d.log[i] = "write" }) = Len(d.bodies)
              /\ ~is_stdinout(d.fout) => Delivered = CatAll(d.bodies)
    /\ (SenderMismatch /\ ThroughFiles) => Delivered = fs[e.fin].data

\* Decrypt of a file of three records refused the sender after it had written
\* all of the plaintext to its output file.
C19_Witness ==
    /\ SenderMismatch /\ ThroughFiles
    /\ Len(d.bodies) = 3
    /\ BLen(Delivered) = 2 * MAX_PAYLOAD_PART_LENGTH + 1
    /\ Delivered = fs[e.fin].data

\* The plaintext bytes encrypt has put in payload records.
Sealed == SumLen([j \in 1..(Len(e.sent) - 2) |-> e.sent[j + 2][1].r.body])

\* C20: whenever encrypt returns success, the length in the marker, measured
\* before the first read, is the number of plaintext bytes in the payload
\* records; when the input has yielded another number of bytes than was
\* measured, encrypt does not return success.
C20_DeclaredLengthIsSealed ==
    Encrypting =>
    /\ (e.log # <<>> /\ e.in_pos = 0)
           => e.payload_length = BLen(fs[e.fin].data) + (IF e.cut THEN 1 ELSE 0) - e.appended
    /\ Len(e.sent) >= 2 => e.sent[2][1].r.body = WriteU64BE(e.payload_length)
    /\ eRes.status = "ok"
           => /\ Sealed = e.payload_length
              /\ e.in_pos = e.payload_length
    /\ (pc = "enc_ret" /\ Len(e.sent) >= 2 /\ e.in_pos # e.payload_length)
           => /\ eRes.status # "ok"
              /\ eRes.kind = "assert_length"
              /\ Sealed = e.in_pos

\* The input file lost its last byte after encrypt had measured it, and
\* encrypt did not return success.
C20_Witness ==
    /\ pc = "enc_ret"
    /\ e.cut
    /\ Len(e.sent) = 4
    /\ e.in_pos = e.payload_length - 1
    /\ eRes.status = "panic"

====
